---- MODULE Spec2Model ----
(***************************************************************************)
(* Model of automix_solve.py: the specification parser, the hall           *)
(* augmenter, the matrix builder, the bounded solver and the diagnostics   *)
(* reporter of main().                                                     *)
(*                                                                         *)
(* Representation.                                                         *)
(*  - A Python float is a fixed-point integer counted in 1/Unit.           *)
(*  - A line of the specification file is a record: its indentation        *)
(*    (len(line) - len(line.lstrip())) and which of the program's regular  *)
(*    expressions its stripped text matches, with the groups they capture. *)
(*    A numeral is the captured text of [0-9.]+, kept as its characters,   *)
(*    so that float() is computed from them and can fail.                  *)
(*  - A Python dict is a function, a list is a sequence.  Component        *)
(*    indices are 0-based as in the program; line positions are 1-based.   *)
(***************************************************************************)
EXTENDS Integers, Sequences, FiniteSets, TLC

VARIABLES
    lines,        \* parse_spec_file: the lines read from the spec file
    track_names,  \* main: the stripped, non-empty lines of the track list
    alt,          \* the same file with a signal section moved (second run)
    pc,           \* main: position in the run
    spec,         \* main: the dict returned by parse_spec_file, or NoSpec
    spec_alt,     \* the second run's outcome of parse_spec_file
    output,       \* main: the record written to the output file
    exit_code,    \* main: process status (0 normal, 1 sys.exit(1))
    A,            \* build_matrices: contribution matrix [component][signal]
    target,       \* build_matrices: target vector
    is_hall,      \* build_matrices: hall indicator vector
    x,            \* solve_mix: the minimizer's iterate
    nit,          \* solve_mix: iterations done
    solution      \* main: what solve_mix returned

vars == <<lines, track_names, alt, pc, spec, spec_alt, output, exit_code,
          A, target, is_hall, x, nit, solution>>

-----------------------------------------------------------------------------
(* Numbers *)

\* One unit of the fixed-point representation of a float: 1.0 = Unit.
Unit == 1000

Mul(a, b) == (a * b) \div Unit

Abs(a) == IF a < 0 THEN -a ELSE a

Max(a, b) == IF a < b THEN b ELSE a

DigitVal ==
    ("0" :> 0) @@ ("1" :> 1) @@ ("2" :> 2) @@ ("3" :> 3) @@ ("4" :> 4) @@
    ("5" :> 5) @@ ("6" :> 6) @@ ("7" :> 7) @@ ("8" :> 8) @@ ("9" :> 9)

IsDigit(c) == c \in DOMAIN DigitVal

RECURSIVE DigitsValue(_)
DigitsValue(s) ==
    IF s = <<>> THEN 0
    ELSE 10 * DigitsValue(SubSeq(s, 1, Len(s) - 1)) + DigitVal[s[Len(s)]]

DotAt(s) ==
    IF \E k \in 1..Len(s) : s[k] = "."
    THEN CHOOSE k \in 1..Len(s) : s[k] = "."
    ELSE Len(s) + 1

\* float(text) succeeds on a text of [0-9.]+ iff it has at most one dot and
\* at least one digit; otherwise Python raises ValueError.
FloatOk(s) ==
    /\ Cardinality({k \in 1..Len(s) : s[k] = "."}) <= 1
    /\ \E k \in 1..Len(s) : IsDigit(s[k])

\* float(text) of a text float() accepts.
Float(s) ==
    LET d    == DotAt(s)
        ip   == SubSeq(s, 1, d - 1)
        fp   == SubSeq(s, d + 1, Len(s))
    IN  DigitsValue(ip) * Unit + (DigitsValue(fp) * Unit) \div (10 ^ Len(fp))

\* float(text) of the group -?[0-9.]+ of the hall gain line.
SignedFloat(neg, s) == IF neg THEN 0 - Float(s) ELSE Float(s)

-----------------------------------------------------------------------------
(* Lines *)

NoNum == <<>>

Line(k, i, n, v, g, p) ==
    [kind |-> k, ind |-> i, name |-> n, num |-> v, neg |-> g, parts |-> p]

Blank            == Line("blank", 0, "", NoNum, FALSE, <<>>)      \* stripped = ""
Comment(i)       == Line("comment", i, "", NoNum, FALSE, <<>>)   \* "# ..."
TargetHdr(i)     == Line("target", i, "", NoNum, FALSE, <<>>)    \* "target:"
KV(i, n, v)      == Line("kv", i, n, v, FALSE, <<>>)             \* "<word>: <numeral>"
HallLine(i, g, v) == Line("hall", i, "", v, g, <<>>)             \* "hall gain: <-?numeral>"
SigHdr(i, n)     == Line("signal", i, n, NoNum, FALSE, <<>>)     \* "signal <name>:"
Inline(i, n, p)  == Line("inline", i, n, NoNum, FALSE, p)        \* "signal <name>: <list>"
Junk(i)          == Line("junk", i, "", NoNum, FALSE, <<>>)      \* anything else

\* One comma-separated part of an inline list: "<numeral> <name>", or a part
\* the token regular expression does not match (num = NoNum).
Part(v, n) == [num |-> v, name |-> n]

-----------------------------------------------------------------------------
(* The regular expressions, by the line kinds they match *)

\* not stripped or stripped.startswith("#")
Skipped(line) == line.kind \in {"blank", "comment"}

\* re.match(r"(\w+):\s*([0-9.]+)\s*$", stripped)
MatchInstrument(line) == line.kind = "kv"

\* re.match(r"(direct|early):\s*([0-9.]+)\s*$", stripped)
MatchRatio(line) == line.kind = "kv" /\ line.name \in {"direct", "early"}

\* re.match(r"hall\s+gain:\s*(-?[0-9.]+)\s*$", stripped)
MatchHall(line) == line.kind = "hall"

\* re.match(r"signal\s+(\S+):\s*$", stripped)
MatchNestedSignal(line) == line.kind = "signal"

\* re.match(r"signal\s+(\S+):\s*(.+)$", stripped)
MatchInlineSignal(line) == line.kind = "inline"

\* re.match(r"([0-9.]+)\s+(\S+)", part)
MatchToken(part) == part.num # NoNum

-----------------------------------------------------------------------------
(* Dicts *)

EmptyDict == <<>>

\* d[k] = v
Put(d, k, v) == [j \in DOMAIN d \cup {k} |-> IF j = k THEN v ELSE d[j]]

\* d.get(k, default)
Get(d, k, default) == IF k \in DOMAIN d THEN d[k] ELSE default

\* A signal: {"name": ..., "weights": ..., "is_hall": ...}
Signal(name, weights, hall) == [name |-> name, weights |-> weights, is_hall |-> hall]

-----------------------------------------------------------------------------
(* parse_nested_target *)

NoIndent == -1     \* base_indent is None
NoInstrument == "" \* current_instrument is None (\w+ never matches "")

\* One pass of the while loop of parse_nested_target over lines[st.i ..];
\* st.raised records a ValueError of float().
RECURSIVE TargetLoop(_, _)
TargetLoop(ls, st) ==
    IF st.i > Len(ls) THEN st
    ELSE
      LET line == ls[st.i] IN
      IF Skipped(line) THEN TargetLoop(ls, [st EXCEPT !.i = @ + 1])
      ELSE
        LET indent == line.ind
            base   == IF st.base_indent = NoIndent THEN indent ELSE st.base_indent
            s1     == [st EXCEPT !.base_indent = base]
        IN
        IF indent < base THEN s1
        ELSE IF MatchInstrument(line) /\ indent = base THEN
            IF ~FloatOk(line.num) THEN [s1 EXCEPT !.raised = TRUE]
            ELSE TargetLoop(ls,
                   [s1 EXCEPT !.current_instrument = line.name,
                              !.instruments = Append(@, line.name),
                              !.target_weights =
                                  Put(@, line.name, [weight |-> Float(line.num)]),
                              !.i = @ + 1])
        ELSE IF /\ MatchRatio(line)
                /\ st.current_instrument # NoInstrument
                /\ indent > base THEN
            IF ~FloatOk(line.num) THEN [s1 EXCEPT !.raised = TRUE]
            ELSE TargetLoop(ls,
                   [s1 EXCEPT !.target_weights[st.current_instrument] =
                                  Put(@, line.name, Float(line.num)),
                              !.i = @ + 1])
        ELSE TargetLoop(ls, [s1 EXCEPT !.i = @ + 1])

\* parse_nested_target(lines, start_idx): instruments, target_weights and the
\* position of the first line after the block (or raised).
parse_nested_target(ls, start_idx) ==
    TargetLoop(ls, [instruments |-> <<>>, target_weights |-> EmptyDict,
                    i |-> start_idx, current_instrument |-> NoInstrument,
                    base_indent |-> NoIndent, raised |-> FALSE])

-----------------------------------------------------------------------------
(* parse_signal_components *)

\* Mutant of Store: an unknown name is stored under a fresh index.
StoreUnknownToo(result, component_index, name, weight) ==
    IF name \in DOMAIN component_index
    THEN Put(result, component_index[name], weight)
    ELSE Put(result, Cardinality(DOMAIN component_index), weight)

\* if name in component_index: result[component_index[name]] = weight
Store(result, component_index, name, weight) ==
    IF name \in DOMAIN component_index
    THEN Put(result, component_index[name], weight)
    ELSE result

\* The for loop of parse_signal_components over parts[k ..]; acc.raised
\* records a ValueError of float().
RECURSIVE ComponentsLoop(_, _, _, _, _)
ComponentsLoop(parts, k, signal_name, component_index, acc) ==
    IF k > Len(parts) THEN acc
    ELSE
      LET part == parts[k] IN
      IF ~MatchToken(part)
      THEN ComponentsLoop(parts, k + 1, signal_name, component_index, acc)
      ELSE IF ~FloatOk(part.num) THEN [acc EXCEPT !.raised = TRUE]
      ELSE
        LET weight == Float(part.num)
            name   == IF part.name = "direct"
                      THEN signal_name \o "_direct"
                      ELSE part.name
        IN  ComponentsLoop(parts, k + 1, signal_name, component_index,
                [acc EXCEPT !.result = Store(@, component_index, name, weight)])

\* parse_signal_components(component_str, signal_name, component_index), the
\* component string given as its comma-separated parts.
parse_signal_components(parts, signal_name, component_index) ==
    ComponentsLoop(parts, 1, signal_name, component_index,
                   [result |-> EmptyDict, raised |-> FALSE])

-----------------------------------------------------------------------------
(* parse_nested_signal *)

\* The weight a component line of a nested signal stores.
NestedWeight(instrument_weight, comp_weight) == Mul(instrument_weight, comp_weight)

RECURSIVE SignalLoop(_, _, _)
SignalLoop(ls, component_index, st) ==
    IF st.i > Len(ls) THEN st
    ELSE
      LET line == ls[st.i] IN
      IF Skipped(line)
      THEN SignalLoop(ls, component_index, [st EXCEPT !.i = @ + 1])
      ELSE
        LET indent == line.ind
            base   == IF st.base_indent = NoIndent THEN indent ELSE st.base_indent
            s1     == [st EXCEPT !.base_indent = base]
        IN
        IF indent < base THEN s1
        ELSE IF MatchInstrument(line) /\ indent = base THEN
            IF ~FloatOk(line.num) THEN [s1 EXCEPT !.raised = TRUE]
            ELSE SignalLoop(ls, component_index,
                   [s1 EXCEPT !.current_instrument = line.name,
                              !.current_instrument_weight = Float(line.num),
                              !.i = @ + 1])
        ELSE IF /\ MatchRatio(line)
                /\ st.current_instrument # NoInstrument
                /\ indent > base THEN
            IF ~FloatOk(line.num) THEN [s1 EXCEPT !.raised = TRUE]
            ELSE
              LET comp_name == st.current_instrument \o "_" \o line.name
                  w == NestedWeight(st.current_instrument_weight, Float(line.num))
              IN  SignalLoop(ls, component_index,
                    [s1 EXCEPT !.weights = Store(@, component_index, comp_name, w),
                               !.i = @ + 1])
        ELSE SignalLoop(ls, component_index, [s1 EXCEPT !.i = @ + 1])

\* parse_nested_signal(lines, start_idx, component_index): weights and the
\* position of the first line after the block (or raised).
parse_nested_signal(ls, start_idx, component_index) ==
    SignalLoop(ls, component_index,
               [weights |-> EmptyDict, i |-> start_idx,
                current_instrument |-> NoInstrument,
                current_instrument_weight |-> 0,
                base_indent |-> NoIndent, raised |-> FALSE])

-----------------------------------------------------------------------------
(* parse_spec_file *)

\* Mutant of HallGainUpdate: a gain once set is kept.
HallGainKeepFirst(old, new) == IF old = 0 THEN new ELSE old

\* hall_gain_db = float(match.group(1)): the later line overwrites.
HallGainUpdate(old, new) == new

\* First while loop: the target block and the hall gain.
RECURSIVE FirstPass(_, _)
FirstPass(ls, st) ==
    IF st.i > Len(ls) THEN st
    ELSE
      LET line == ls[st.i] IN
      IF line.kind = "target" THEN
          LET t == parse_nested_target(ls, st.i + 1) IN
          IF t.raised THEN [st EXCEPT !.raised = TRUE]
          ELSE FirstPass(ls, [st EXCEPT !.instruments = t.instruments,
                                        !.target_weights = t.target_weights,
                                        !.i = t.i])
      ELSE IF MatchHall(line) THEN
          IF ~FloatOk(line.num) THEN [st EXCEPT !.raised = TRUE]
          ELSE FirstPass(ls, [st EXCEPT
                                 !.hall_gain_db =
                                     HallGainUpdate(@, SignedFloat(line.neg, line.num)),
                                 !.i = @ + 1])
      ELSE FirstPass(ls, [st EXCEPT !.i = @ + 1])

\* components: <instr>_direct, <instr>_early for each instrument in order.
RECURSIVE Components(_)
Components(instruments) ==
    IF instruments = <<>> THEN <<>>
    ELSE <<Head(instruments) \o "_direct", Head(instruments) \o "_early">>
         \o Components(Tail(instruments))

\* {name: idx for idx, name in enumerate(components)}: a later occurrence of
\* a name overwrites an earlier one.
ComponentIndex(components) ==
    [name \in {components[k] : k \in 1..Len(components)} |->
        (CHOOSE k \in 1..Len(components) :
            /\ components[k] = name
            /\ \A j \in 1..Len(components) : components[j] = name => j <= k) - 1]

\* target: one entry per component of each key of target_weights.
Target(target_weights, component_index) ==
    [idx \in {component_index[n] : n \in DOMAIN component_index} |->
        LET instr == CHOOSE t \in DOMAIN target_weights :
                         idx \in {component_index[t \o "_direct"],
                                  component_index[t \o "_early"]}
            w == target_weights[instr]
        IN  IF idx = component_index[instr \o "_direct"]
            THEN Mul(Get(w, "weight", 0), Get(w, "direct", 0))
            ELSE Mul(Get(w, "weight", 0), Get(w, "early", 0))]

\* Mutant of IndexAt: a declaration standing before any target header is
\* resolved against an index that is still empty.
IndexKnownSoFar(component_index, ls, i) ==
    IF \E h \in 1..(i - 1) : ls[h].kind = "target" THEN component_index ELSE EmptyDict

\* The index a signal declaration at line i is resolved against: the one
\* built from the whole target block, wherever the declaration stands.
IndexAt(component_index, ls, i) == component_index

\* Second while loop: the signal declarations.
RECURSIVE SecondPass(_, _, _)
SecondPass(ls, component_index, st) ==
    IF st.i > Len(ls) THEN st
    ELSE
      LET line == ls[st.i] IN
      IF Skipped(line)
      THEN SecondPass(ls, component_index, [st EXCEPT !.i = @ + 1])
      ELSE IF MatchNestedSignal(line) THEN
          LET n == parse_nested_signal(ls, st.i + 1,
                                       IndexAt(component_index, ls, st.i)) IN
          IF n.raised THEN [st EXCEPT !.raised = TRUE]
          ELSE SecondPass(ls, component_index,
                 [st EXCEPT !.signals = Append(@, Signal(line.name, n.weights, FALSE)),
                            !.i = n.i])
      ELSE IF MatchInlineSignal(line) THEN
          LET c == parse_signal_components(line.parts, line.name,
                                           IndexAt(component_index, ls, st.i)) IN
          IF c.raised THEN [st EXCEPT !.raised = TRUE]
          ELSE SecondPass(ls, component_index,
                 [st EXCEPT !.signals = Append(@, Signal(line.name, c.result, FALSE)),
                            !.i = @ + 1])
      ELSE SecondPass(ls, component_index, [st EXCEPT !.i = @ + 1])

NoSpec == [status |-> "none"]
Raised == [status |-> "ValueError"]
NoTargetError == "No target section found in spec file"

\* parse_spec_file(filepath), the file given as its lines: a Spec
\* (status "ok"), (None, error) (status "error"), or a raised ValueError.
parse_spec_file(ls) ==
    LET p1 == FirstPass(ls, [instruments |-> <<>>, target_weights |-> EmptyDict,
                             hall_gain_db |-> 0, i |-> 1, raised |-> FALSE])
    IN
    IF p1.raised THEN Raised
    ELSE IF p1.instruments = <<>> THEN [status |-> "error", error |-> NoTargetError]
    ELSE
      LET components == Components(p1.instruments)
          component_index == ComponentIndex(components)
          p2 == SecondPass(ls, component_index,
                           [signals |-> <<>>, i |-> 1, raised |-> FALSE])
      IN
      IF p2.raised THEN Raised
      ELSE [status |-> "ok",
            components |-> components,
            component_index |-> component_index,
            signals |-> p2.signals,
            target |-> Target(p1.target_weights, component_index),
            instruments |-> p1.instruments,
            hall_gain_db |-> p1.hall_gain_db]

-----------------------------------------------------------------------------
(* db_to_linear, add_hall_signals *)

\* 10 ** (k / 20) for k = 0 .. 19, in 1/Unit.
Pow10Twentieths ==
    <<1000, 1122, 1259, 1413, 1585, 1778, 1995, 2239, 2512, 2818,
      3162, 3548, 3981, 4467, 5012, 5623, 6310, 7079, 7943, 8913>>

\* Mutant of db_to_linear: the decibel value used as the linear gain.
db_as_linear(db) == db

\* db_to_linear(db) = 10 ** (db / 20), for db a whole number of decibels.
RECURSIVE db_to_linear(_)
db_to_linear(db) ==
    IF db >= 20 * Unit THEN 10 * db_to_linear(db - 20 * Unit)
    ELSE IF db < 0 THEN db_to_linear(db + 20 * Unit) \div 10
    ELSE Pow10Twentieths[(db \div Unit) + 1]

UpperCase == <<"A", "B", "C", "D", "E", "F", "G", "H", "I", "J", "K", "L", "M",
               "N", "O", "P", "Q", "R", "S", "T", "U", "V", "W", "X", "Y", "Z">>
LowerCase == <<"a", "b", "c", "d", "e", "f", "g", "h", "i", "j", "k", "l", "m",
               "n", "o", "p", "q", "r", "s", "t", "u", "v", "w", "x", "y", "z">>

\* One character of track_name.lower().replace(" ", "_")
NormalizeChar(c) ==
    IF c = " " THEN "_"
    ELSE IF \E k \in 1..Len(UpperCase) : UpperCase[k] = c
    THEN LowerCase[CHOOSE k \in 1..Len(UpperCase) : UpperCase[k] = c]
    ELSE c

\* A track name is kept as its characters; Text is the str.
RECURSIVE Text(_)
Text(chars) == IF chars = <<>> THEN "" ELSE Head(chars) \o Text(Tail(chars))

Normalized(track_name) ==
    Text([k \in 1..Len(track_name) |-> NormalizeChar(track_name[k])])

\* Mutant of HallSignalsFor: the hall signal feeds the direct component.
HallSignalsToDirect(sp, track_name, hall_gain_linear) ==
    LET instruments == {sp.instruments[k] : k \in 1..Len(sp.instruments)}
        hit == {instr \in instruments : Normalized(track_name) = instr \o "_hall"}
    IN  IF hit = {} THEN <<>>
        ELSE LET instr == CHOOSE t \in hit : TRUE
             IN  <<Signal(Text(track_name),
                          Put(EmptyDict, sp.component_index[instr \o "_direct"],
                              hall_gain_linear),
                          TRUE)>>

\* The signals add_hall_signals appends for one track name: the loop over
\* set(spec["instruments"]) with its break.
HallSignalsFor(sp, track_name, hall_gain_linear) ==
    LET instruments == {sp.instruments[k] : k \in 1..Len(sp.instruments)}
        hit == {instr \in instruments : Normalized(track_name) = instr \o "_hall"}
    IN  IF hit = {} THEN <<>>
        ELSE LET instr == CHOOSE t \in hit : TRUE
                 early_component == instr \o "_early"
             IN  IF early_component \in DOMAIN sp.component_index
                 THEN <<Signal(Text(track_name),
                               Put(EmptyDict, sp.component_index[early_component],
                                   hall_gain_linear),
                               TRUE)>>
                 ELSE <<>>

RECURSIVE HallLoop(_, _, _)
HallLoop(sp, names, hall_gain_linear) ==
    IF names = <<>> THEN sp
    ELSE HallLoop([sp EXCEPT !.signals =
                       @ \o HallSignalsFor(sp, Head(names), hall_gain_linear)],
                  Tail(names), hall_gain_linear)

\* add_hall_signals(spec, track_names): the spec after the in-place appends.
add_hall_signals(sp, names) == HallLoop(sp, names, db_to_linear(sp.hall_gain_db))

-----------------------------------------------------------------------------
(* build_matrices *)

\* A[idx][j], target[idx], is_hall[j]; idx is 0-based, j is the position of
\* the signal in spec["signals"].
build_matrices(sp) ==
    LET num_components == Len(sp.components)
        num_signals    == Len(sp.signals)
    IN  [A |-> [idx \in 0..(num_components - 1) |->
                  [j \in 1..num_signals |-> Get(sp.signals[j].weights, idx, 0)]],
         target |-> [idx \in 0..(num_components - 1) |-> Get(sp.target, idx, 0)],
         is_hall |-> [j \in 1..num_signals |-> IF sp.signals[j].is_hall THEN 1 ELSE 0],
         signal_names |-> [j \in 1..num_signals |-> sp.signals[j].name]]

-----------------------------------------------------------------------------
(* solve_mix *)

HALL_PENALTY == 10     \* 0.01
X0 == 300              \* x0 = np.ones(num_signals) * 0.3
MaxIter == 3           \* stands for options maxiter

\* Step lengths the line search may accept, in 1/Unit.
StepSet == {250, 500, 750}

RECURSIVE Sum(_, _)
Sum(f, S) ==
    IF S = {} THEN 0
    ELSE LET e == CHOOSE e \in S : TRUE IN f[e] + Sum(f, S \ {e})

\* A @ x - target
Residual(M, t, v) ==
    [c \in DOMAIN M |-> Sum([j \in DOMAIN v |-> Mul(M[c][j], v[j])], DOMAIN v) - t[c]]

\* np.sum(residual ** 2), in 1/Unit^2
SumSq(r) == Sum([c \in DOMAIN r |-> r[c] * r[c]], DOMAIN r)

\* objective(x), in 1/Unit^2
Objective(M, t, h, v) ==
    SumSq(Residual(M, t, v))
    + Mul(HALL_PENALTY, Sum([j \in DOMAIN v |-> (v[j] * h[j]) * (v[j] * h[j])], DOMAIN v))

\* objective_grad(x)
Gradient(M, t, h, v) ==
    LET r == Residual(M, t, v) IN
    [j \in DOMAIN v |->
        2 * Sum([c \in DOMAIN M |-> Mul(M[c][j], r[c])], DOMAIN M)
        + Mul(2 * HALL_PENALTY, v[j] * h[j])]

\* Mutant of Project: the bounds dropped.
ProjectNowhere(v) == v

\* bounds = [(0, None)]: an iterate is projected onto x >= 0.
Project(v) == Max(0, v)

\* One iterate of the bounded minimizer: a step of length alpha against the
\* gradient, projected onto the bounds.
Iterate(M, t, h, v, alpha) ==
    LET g == Gradient(M, t, h, v) IN
    [j \in DOMAIN v |-> Project(v[j] - Mul(alpha, g[j]))]

\* The steps the line search accepts: those that decrease the objective.
Improving(M, t, h, v) ==
    {alpha \in StepSet :
        Objective(M, t, h, Iterate(M, t, h, v, alpha)) < Objective(M, t, h, v)}

NoSolution == [status |-> "none"]

-----------------------------------------------------------------------------
(* main: the report *)

Threshold == 10        \* 0.01

\* error > 0.01, the norm compared by its square
ErrorAbove(error_sq) == error_sq > Threshold * Threshold

\* error < 0.01
ErrorBelow(error_sq) == error_sq < Threshold * Threshold

\* The position whose entry a dict keyed by names[k] keeps: the last one.
LastOf(names, n) ==
    CHOOSE k \in DOMAIN names :
        names[k] = n /\ \A j \in DOMAIN names : names[j] = n => j <= k

\* achieved_mix: achieved = A @ solution, target and diff by component name
AchievedMix(components, M, t, v) ==
    LET r == Residual(M, t, v) IN
    [n \in {components[k] : k \in 1..Len(components)} |->
        LET idx == LastOf(components, n) - 1 IN
        [achieved |-> r[idx] + t[idx], target |-> t[idx], diff |-> r[idx]]]

\* Mutant of IsProblem: the absolute value forgotten.
IsProblemSigned(diff) == diff > Threshold

\* abs(diff) > 0.01
IsProblem(diff) == Abs(diff) > Threshold

\* The problems list: (component, direction) for each component listed.
Problems(mix) ==
    {<<n, IF mix[n].diff > 0 THEN "too much" ELSE "not enough">> :
        n \in {m \in DOMAIN mix : IsProblem(mix[m].diff)}}

NoMessage == {}        \* error_message = None

\* error_message
ErrorMessage(error_sq, mix) ==
    IF ErrorAbove(error_sq) /\ Problems(mix) # {} THEN Problems(mix) ELSE NoMessage

\* linear_to_db(lin), to the whole decibel below
linear_to_db(lin) ==
    IF lin <= 0 THEN 0 - 150 * Unit
    ELSE Unit * (CHOOSE d \in (0 - 80)..80 :
                    /\ db_to_linear(d * Unit) <= lin
                    /\ db_to_linear((d + 1) * Unit) > lin)

-----------------------------------------------------------------------------
(* main *)

NoOutput == [written |-> FALSE]

\* spec, err = parse_spec_file(spec_file) and the failure exit.  A ValueError
\* is not caught anywhere: the run ends with Python's traceback and status 1,
\* and no output file.
MainParse ==
    /\ pc = "start"
    /\ LET r == parse_spec_file(lines) IN
       CASE r.status = "ValueError" ->
              /\ pc' = "raised"
              /\ spec' = NoSpec
              /\ output' = NoOutput
              /\ exit_code' = 1
         [] r.status = "error" ->
              /\ pc' = "exit"
              /\ spec' = NoSpec
              /\ output' = [written |-> TRUE, success |-> FALSE, error |-> r.error]
              /\ exit_code' = 1
         [] OTHER ->
              /\ pc' = "parsed"
              /\ spec' = r
              /\ UNCHANGED <<output, exit_code>>
    /\ UNCHANGED <<lines, track_names, alt, spec_alt, A, target, is_hall, x, nit,
                   solution>>

\* add_hall_signals(spec, track_names)
AddHall ==
    /\ pc = "parsed"
    /\ spec' = add_hall_signals(spec, track_names)
    /\ pc' = "augmented"
    /\ UNCHANGED <<lines, track_names, alt, spec_alt, output, exit_code, A, target,
                   is_hall, x, nit, solution>>

\* A, target, is_hall, signal_names = build_matrices(spec)
Build ==
    /\ pc = "augmented"
    /\ LET m == build_matrices(spec) IN
         /\ A' = m.A
         /\ target' = m.target
         /\ is_hall' = m.is_hall
    /\ pc' = "built"
    /\ UNCHANGED <<lines, track_names, alt, spec, spec_alt, output, exit_code, x, nit,
                   solution>>

\* solve_mix: minimize(...) starts from x0.
SolveStart ==
    /\ pc = "built"
    /\ x' = [j \in DOMAIN is_hall |-> X0]
    /\ nit' = 0
    /\ pc' = "minimize"
    /\ UNCHANGED <<lines, track_names, alt, spec, spec_alt, output, exit_code, A,
                   target, is_hall, solution>>

\* minimize: one accepted iteration.
SolveStep ==
    /\ pc = "minimize"
    /\ nit < MaxIter
    /\ \E alpha \in Improving(A, target, is_hall, x) :
          x' = Iterate(A, target, is_hall, x, alpha)
    /\ nit' = nit + 1
    /\ UNCHANGED <<lines, track_names, alt, pc, spec, spec_alt, output, exit_code, A,
                   target, is_hall, solution>>

\* minimize returns: converged when no step improves, not converged when the
\* iteration cap is reached first; solve_mix returns result.x, the residual
\* norm (kept as its square) and result.success.
SolveStop ==
    /\ pc = "minimize"
    /\ Improving(A, target, is_hall, x) = {} \/ nit = MaxIter
    /\ solution' = [status |-> "returned",
                    x |-> x,
                    error_sq |-> SumSq(Residual(A, target, x)),
                    success |-> (Improving(A, target, is_hall, x) = {})]
    /\ pc' = "solved"
    /\ UNCHANGED <<lines, track_names, alt, spec, spec_alt, output, exit_code, A,
                   target, is_hall, x, nit>>

\* main: levels, achieved_mix, error_message and the result written.
Report ==
    /\ pc = "solved"
    /\ LET signal_names == build_matrices(spec).signal_names
           achieved_mix == AchievedMix(spec.components, A, target, solution.x)
       IN
       output' =
         [written |-> TRUE,
          success |-> (solution.success /\ ErrorBelow(solution.error_sq)),
          error_sq |-> solution.error_sq,
          error_message |-> ErrorMessage(solution.error_sq, achieved_mix),
          levels |-> [n \in {signal_names[j] : j \in DOMAIN signal_names} |->
                        LET j == LastOf(signal_names, n) IN
                        [linear |-> solution.x[j],
                         db |-> linear_to_db(solution.x[j]),
                         is_hall |-> (is_hall[j] = 1)]],
          achieved_mix |-> achieved_mix,
          instruments |-> spec.instruments,
          components |-> spec.components]
    /\ exit_code' = 0
    /\ pc' = "done"
    /\ UNCHANGED <<lines, track_names, alt, spec, spec_alt, A, target, is_hall, x, nit,
                   solution>>

\* The program run on the rearranged file.
RerunMoved ==
    /\ pc # "start"
    /\ spec_alt = NoSpec
    /\ spec_alt' = parse_spec_file(alt)
    /\ UNCHANGED <<lines, track_names, alt, pc, spec, output, exit_code, A, target,
                   is_hall, x, nit, solution>>

\* The state of main before parse_spec_file is called.
Start(ls, names, moved) ==
    /\ lines = ls
    /\ track_names = names
    /\ alt = moved
    /\ pc = "start"
    /\ spec = NoSpec
    /\ spec_alt = NoSpec
    /\ output = NoOutput
    /\ exit_code = 0
    /\ A = <<>>
    /\ target = <<>>
    /\ is_hall = <<>>
    /\ x = <<>>
    /\ nit = 0
    /\ solution = NoSolution

\* Sequences over S of length at most n.
SeqUpTo(S, n) == UNION {[1..k -> S] : k \in 0..n}

-----------------------------------------------------------------------------
(* Specification: the parser and the hall augmenter over bounded files *)

MaxLines == 5

N_half == <<"0", ".", "5">>
N_one  == <<"1">>
N_two  == <<"2">>
N_bad  == <<".">>

\* The lines a bounded file is made of: a target header, instrument lines
\* (one with a numeral float() rejects), ratio lines, a nested and an inline
\* signal declaration (the inline one names the alias, a component that
\* exists only when b is declared, and an unknown one), a comment and a
\* hall gain line.
ParseLines ==
    { TargetHdr(0),
      KV(1, "a", N_two),
      KV(1, "b", N_half),
      KV(2, "direct", N_two),
      KV(2, "early", N_bad),
      SigHdr(0, "s"),
      Inline(0, "a", <<Part(N_two, "direct"), Part(N_one, "a_early"), Part(N_one, "zz")>>),
      HallLine(0, TRUE, <<"6">>) }

ParseTracks == << <<"A", " ", "H", "a", "l", "l">> >>

InitParse == \E ls \in SeqUpTo(ParseLines, MaxLines) : Start(ls, ParseTracks, <<>>)

NextParse == MainParse \/ AddHall \/ Build

SpecParse == InitParse /\ [][NextParse]_vars

-----------------------------------------------------------------------------
(* Properties of the parser *)

HasTargetHeader(ls) == \E k \in 1..Len(ls) : ls[k].kind = "target"

IndexRange(sp) == {sp.component_index[n] : n \in DOMAIN sp.component_index}

Weights(sp) ==
    UNION {{sp.signals[j].weights[k] : k \in DOMAIN sp.signals[j].weights} :
              j \in 1..Len(sp.signals)}

\* Every numeral of the file is one float() accepts.
NumeralsOk(ls) ==
    \A k \in 1..Len(ls) :
        /\ ls[k].num # NoNum => FloatOk(ls[k].num)
        /\ \A q \in 1..Len(ls[k].parts) :
              ls[k].parts[q].num # NoNum => FloatOk(ls[k].parts[q].num)

\* C1 (as claimed): parse_spec_file returns the error exactly for the files
\* without a "target:" header line, and a Spec for every file with one; the
\* error is reported as success=false with a non-zero exit.
C1_ErrorOnlyWithoutTargetHeader ==
    /\ pc = "parsed" => HasTargetHeader(lines)
    /\ pc = "exit" => /\ ~HasTargetHeader(lines)
                      /\ output.success = FALSE
                      /\ exit_code # 0

\* C2 (as claimed): no file makes the parser raise; a line of digits and dots
\* that is no float is skipped like any other unrecognized line.
C2_ParserNeverRaises == pc # "raised"

\* C3 (as claimed): for every returned Spec with N instruments the component
\* index maps <instrument_k>_direct to 2k and <instrument_k>_early to 2k+1
\* (k counted from 0), a bijection onto 0..2N-1.
C3_IndexIsBijection ==
    spec.status = "ok" =>
        LET n == Len(spec.instruments) IN
        /\ IndexRange(spec) = 0..(2 * n - 1)
        /\ \A k \in 1..n :
              /\ spec.component_index[spec.instruments[k] \o "_direct"] = 2 * (k - 1)
              /\ spec.component_index[spec.instruments[k] \o "_early"] = 2 * (k - 1) + 1

\* C4: in every state after parsing and after hall augmentation each key of
\* each signal's weight mapping is an index of the component index mapping,
\* the matrix has no entry outside the stored keys, and a file whose numerals
\* are all floats raises nothing, whatever names it uses.
C4_KeysAreKnownIndices ==
    /\ spec.status = "ok" =>
          \A j \in 1..Len(spec.signals) :
              DOMAIN spec.signals[j].weights \subseteq IndexRange(spec)
    /\ pc = "built" =>
          \A c \in DOMAIN A : \A j \in DOMAIN A[c] :
              A[c][j] # 0 => /\ c \in DOMAIN spec.signals[j].weights
                             /\ c \in IndexRange(spec)
    /\ NumeralsOk(lines) => pc # "raised"

\* C4 witness: an inline signal naming the unknown component zz beside two
\* known ones was parsed and built, and only the two known ones are stored.
C4_Witness ==
    /\ pc = "built"
    /\ \E j \in 1..Len(spec.signals) :
          /\ spec.signals[j].name = "a"
          /\ ~spec.signals[j].is_hall
          /\ DOMAIN spec.signals[j].weights = {0, 1}
    /\ \E k \in 1..Len(lines) :
          /\ lines[k].kind = "inline"
          /\ \E q \in 1..Len(lines[k].parts) : lines[k].parts[q].name = "zz"

\* C9 (as claimed): every stored contribution weight lies in [0, 1].
C9_WeightsInUnitInterval ==
    spec.status = "ok" => \A w \in Weights(spec) : 0 <= w /\ w <= Unit

\* C9 (amended): every stored contribution weight is >= 0; no upper bound
\* is enforced.
C9_WeightsNonNegative ==
    spec.status = "ok" => \A w \in Weights(spec) : w >= 0

\* C9 witness: after hall augmentation a hall signal is present and some
\* signal stores a weight above 1.
C9_Witness ==
    /\ pc = "augmented"
    /\ \E j \in 1..Len(spec.signals) : spec.signals[j].is_hall
    /\ \E w \in Weights(spec) : w > Unit

-----------------------------------------------------------------------------
(* Specification: hall gain lines at every place of a bounded file *)

\* Hall gain lines at column 0 and indented, beside a target header, an
\* instrument line, a signal header (whose block may hold a hall gain line)
\* and a comment (which never ends a block).
HallLines ==
    { TargetHdr(0),
      KV(1, "a", N_one),
      HallLine(0, TRUE, <<"6">>),
      HallLine(1, FALSE, <<"2", "0">>),
      HallLine(2, FALSE, <<"3">>),
      SigHdr(0, "s"),
      Comment(0) }

InitHall == \E ls \in SeqUpTo(HallLines, MaxLines) : Start(ls, ParseTracks, <<>>)

SpecHall == InitHall /\ [][NextParse]_vars

Min(S) == CHOOSE m \in S : \A e \in S : m <= e
MaxOf(S) == CHOOSE m \in S : \A e \in S : e <= m

\* The base indent of the block a header at line h opens: the indent of the
\* first line after h that is neither blank nor a comment.
BlockBase(ls, h) ==
    LET body == {k \in (h + 1)..Len(ls) : ~Skipped(ls[k])} IN
    IF body = {} THEN NoIndent ELSE ls[Min(body)].ind

\* Line j belongs to the block opened at line h: no line from h+1 to j is
\* indented less than the block's base indent (blank and comment lines aside).
InBlockOf(ls, h, j) ==
    /\ h < j
    /\ \A k \in (h + 1)..j : Skipped(ls[k]) \/ ls[k].ind >= BlockBase(ls, h)

\* Line j belongs to a target block: one opened by a "target:" line that is
\* not itself inside a target block.
RECURSIVE InTargetBlock(_, _)
InTargetBlock(ls, j) ==
    \E h \in 1..(j - 1) :
        /\ ls[h].kind = "target"
        /\ ~InTargetBlock(ls, h)
        /\ InBlockOf(ls, h, j)

\* The value of the last line among the hall gain lines at positions P.
LastHallValue(ls, P) ==
    IF P = {} THEN 0 ELSE SignedFloat(ls[MaxOf(P)].neg, ls[MaxOf(P)].num)

HallPositions(ls) == {k \in 1..Len(ls) : ls[k].kind = "hall"}

\* C5 (as claimed): the Spec's hall gain is the value of the last hall gain
\* line anywhere in the file, 0 when there is none.
C5_LastHallGainAnywhere ==
    spec.status = "ok" => spec.hall_gain_db = LastHallValue(lines, HallPositions(lines))

\* C5 (amended): the Spec's hall gain is the value of the last hall gain
\* line that does not lie inside a target block's line range, 0 when there
\* is none.
C5_LastHallGainOutsideTarget ==
    spec.status = "ok" =>
        spec.hall_gain_db =
            LastHallValue(lines, {k \in HallPositions(lines) : ~InTargetBlock(lines, k)})

\* C5 witness: a file was parsed whose last hall gain line lies inside the
\* target block and is ignored, an earlier one outside it giving the gain.
C5_Witness ==
    /\ pc = "parsed"
    /\ HallPositions(lines) # {}
    /\ InTargetBlock(lines, MaxOf(HallPositions(lines)))
    /\ spec.hall_gain_db # 0
    /\ spec.hall_gain_db # LastHallValue(lines, HallPositions(lines))

-----------------------------------------------------------------------------
(* Specification: the hall augmenter over bounded track lists *)

MaxTracks == 3

\* Track names as main hands them on: stripped, non-empty.
TrackSet ==
    { <<"A", " ", "H", "a", "l", "l">>,
      <<"a", "_", "h", "a", "l", "l">>,
      <<"B", "_", "h", "a", "l", "l">>,
      <<"a", "_", "h", "a", "l">> }

\* Target blocks declaring a, b, B, one of them twice or two of them, after
\* an optional hall gain line and before an optional inline signal.
TrackFiles ==
    { pre \o <<TargetHdr(0)>> \o body \o post :
        pre \in {<<>>, <<HallLine(0, TRUE, <<"6">>)>>},
        body \in (SeqUpTo({KV(1, "a", N_one), KV(1, "b", N_one), KV(1, "B", N_one)}, 2)
                    \ {<<>>}),
        post \in {<<>>, <<Inline(0, "a", <<Part(N_one, "direct")>>)>>} }

InitTracks ==
    \E ls \in TrackFiles : \E names \in SeqUpTo(TrackSet, MaxTracks) :
        Start(ls, names, <<>>)

SpecTracks == InitTracks /\ [][NextParse]_vars

\* The declared instrument a supplied name stands for, if any.
HallInstruments(sp, track_name) ==
    {t \in {sp.instruments[k] : k \in 1..Len(sp.instruments)} :
        Normalized(track_name) = t \o "_hall"}

\* The hall signals the claim expects for a list of supplied names: one per
\* matching name, in the order of the list.
RECURSIVE ExpectedHall(_, _)
ExpectedHall(sp, names) ==
    IF names = <<>> THEN <<>>
    ELSE LET hit == HallInstruments(sp, Head(names)) IN
         (IF hit = {} THEN <<>>
          ELSE <<[name |-> Text(Head(names)),
                  is_hall |-> TRUE,
                  weights |-> [k \in {sp.component_index[(CHOOSE t \in hit : TRUE) \o "_early"]}
                                 |-> db_to_linear(sp.hall_gain_db)]]>>)
         \o ExpectedHall(sp, Tail(names))

\* C6: add_hall_signals leaves the spec-defined signals in place and appends
\* after them, in the order of the supplied names, exactly one hall signal
\* per name whose normalized form is <instrument>_hall: named as supplied,
\* is_hall true, its only key that instrument's early index.
C6_HallSignalsAppended ==
    [][pc = "parsed" =>
          /\ spec'.signals = spec.signals \o ExpectedHall(spec, track_names)
          /\ \A j \in 1..Len(spec.signals) : ~spec.signals[j].is_hall]_vars

\* C6 witness: two supplied names matched the same instrument and a third
\* matched none; two hall signals follow a spec-defined signal.
C6_Witness ==
    /\ pc = "augmented"
    /\ Len(track_names) = 3
    /\ Len(spec.signals) = 3
    /\ ~spec.signals[1].is_hall
    /\ spec.signals[2].is_hall /\ spec.signals[3].is_hall
    /\ spec.signals[2].weights = spec.signals[3].weights
    /\ spec.signals[2].name # spec.signals[3].name

-----------------------------------------------------------------------------
(* Specification: a signal section moved across the target section *)

MaxBody == 2

\* Instrument and ratio lines, indented and (one) at column 0.
MoveBody ==
    { KV(0, "a", N_two),
      KV(1, "a", N_two),
      KV(1, "b", N_half),
      KV(2, "direct", N_half) }

\* The moved declaration's first line: a nested header or an inline signal.
MoveHeads ==
    { SigHdr(0, "s"),
      Inline(0, "a", <<Part(N_two, "direct"), Part(N_one, "b_direct")>>) }

\* Another signal of the file, before or after the two sections.
OtherSignal == <<Inline(0, "q", <<Part(N_one, "a_direct")>>)>>

\* lines has the signal section after the target section, alt before it.
InitMove ==
    \E tbody \in SeqUpTo(MoveBody, MaxBody) :
    \E sbody \in SeqUpTo(MoveBody, MaxBody) :
    \E head \in MoveHeads :
    \E before \in {<<>>, OtherSignal} :
    \E after \in {<<>>, OtherSignal} :
        Start(before \o <<TargetHdr(0)>> \o tbody \o <<head>> \o sbody \o after,
              <<>>,
              before \o <<head>> \o sbody \o <<TargetHdr(0)>> \o tbody \o after)

NextMove == MainParse \/ RerunMoved

SpecMove == InitMove /\ [][NextMove]_vars

\* Both runs are over: the first is past parse_spec_file, the second returned.
BothParsed == pc # "start" /\ spec_alt # NoSpec

\* The two runs resolve alike: both fail alike, or both return the same
\* instrument list, component index, target mapping and signals.
SameResolution ==
    /\ (pc = "exit") = (spec_alt.status = "error")
    /\ (pc = "raised") = (spec_alt.status = "ValueError")
    /\ (spec.status = "ok") = (spec_alt.status = "ok")
    /\ spec.status = "ok" =>
          /\ spec.instruments = spec_alt.instruments
          /\ spec.component_index = spec_alt.component_index
          /\ spec.target = spec_alt.target
          /\ spec.signals = spec_alt.signals

\* Every instrument and ratio line is indented (headers stand at column 0).
BodiesIndented(ls) == \A k \in 1..Len(ls) : ls[k].kind = "kv" => ls[k].ind > 0

\* The first line of the moved declaration.
MovedHead(ls) ==
    Min({k \in 1..Len(ls) : ls[k].kind \in {"signal", "inline"} /\ ls[k].name # "q"})

-----------------------------------------------------------------------------
(* Specification: whole runs of main over a family of small files *)

MaxSignals == 2

N_zero == <<"0">>
N_516  == <<"0", ".", "5", "1", "6">>

\* Inline signals: one feeding a_direct (by the alias), one feeding both
\* components of a, one naming only an unknown component (a zero column).
SolveSignals ==
    { Inline(0, "a", <<Part(N_one, "direct")>>),
      Inline(0, "m", <<Part(N_one, "a_direct"), Part(N_one, "a_early")>>),
      Inline(0, "z", <<Part(N_one, "zz")>>) }

\* One instrument of weight 1 with its two ratios, then one signal or more.
SolveFiles ==
    { <<TargetHdr(0), KV(1, "a", N_one), KV(2, "direct", d), KV(2, "early", e)>> \o sigs :
        d \in {N_half, N_zero},
        e \in {N_zero, N_516},
        sigs \in (SeqUpTo(SolveSignals, MaxSignals) \ {<<>>}) }

SolveTracks == {<<>>, << <<"a", "_", "h", "a", "l", "l">> >>}

InitSolve == \E ls \in SolveFiles : \E names \in SolveTracks : Start(ls, names, <<>>)

NextSolve == MainParse \/ AddHall \/ Build \/ SolveStart \/ SolveStep \/ SolveStop \/ Report

SpecSolve == InitSolve /\ [][NextSolve]_vars

\* A is entirely zero.
ZeroMatrix(M) == \A c \in DOMAIN M : \A j \in DOMAIN M[c] : M[c][j] = 0

\* Within 0.01 of zero.
NearZero(v) == Abs(v) <= Threshold

====
